---- MODULE Spec2Model ----
(***************************************************************************)
(* Model of lambda_function.py: a single-threaded pipeline                 *)
(*   get_market_value -> save_in_bucket -> connect_to_mysql -> insert_data *)
(* driven by lambda_handler.  Every call to an external collaborator       *)
(* (quote provider, object store, secret store, database) is recorded in   *)
(* `log` in the order the code issues it; the outcome of every such call   *)
(* is an input chosen by the environment.                                  *)
(***************************************************************************)
EXTENDS Integers, Sequences, FiniteSets, TLC

\* ---------------------------------------------------------------- bounds
\* largest number of daily bars the quote provider returns for one symbol
MaxBars == 2
\* largest `attempts` argument tried when connect_to_mysql is called directly
MaxAttempts == 4
\* largest `delay` argument tried when connect_to_mysql is called directly
MaxDelay == 3
\* wall-clock days on which save_in_bucket may run
MaxDay == 2
\* invocations of lambda_handler that follow one another on the same bucket
\* and database
MaxRuns == 2

\* ------------------------------------------------------ program constants
\* def connect_to_mysql(attempts: int = 3, delay: int = 2)
DefaultAttempts == 3
DefaultDelay == 2
\* 'statusCode': 200
StatusOk == 200
\* timedelta(days=1)
KeyDaysBack == 1

\* tickers: List[str] = ['BTC-USD', 'ETH-USD', '^GSPC', '^IXIC', 'GC=F']
tickers == <<"BTC-USD", "ETH-USD", "^GSPC", "^IXIC", "GC=F">>

\* ------------------------------------------------------------- helpers
RECURSIVE Pow(_, _)
\* delay ** attempt
Pow(b, e) == IF e = 0 THEN 1 ELSE b * Pow(b, e - 1)

RECURSIVE FlattenReversed(_)
\* variant: the frames are concatenated last to first
FlattenReversed(fs) ==
    IF fs = <<>> THEN <<>> ELSE FlattenReversed(Tail(fs)) \o Head(fs)

RECURSIVE Flatten(_)
\* pd.concat(dataframes_lista, ignore_index=True): rows of the frames, in
\* list order
Flatten(fs) == IF fs = <<>> THEN <<>> ELSE Head(fs) \o Flatten(Tail(fs))

\* position of symbol `m` in tickers (used only to build distinct values)
TickerIndex(m) == CHOOSE n \in 1..Len(tickers) : tickers[n] = m

\* The table yf.download(moneda, period='1d', interval='1d') returns when it
\* holds `n` bars: indexed by date, with the price/volume columns.
ProviderBars(m, n) ==
    [k \in 1..n |-> [Date |-> k,
                     Open |-> 100 * TickerIndex(m) + 10 + k,
                     AdjClose |-> 100 * TickerIndex(m) + k,
                     Volume |-> 1000 * TickerIndex(m) + k]]

\* variant: line 172 orders the columns as the INSERT statement does
QuoteColumnsInsertOrder == <<"fecha", "moneda", "cotizacion", "volumen">>

\* lines 160-172: select ['Adj Close','Volume'], rename to cotizacion and
\* volumen, add fecha (the index) and moneda, reorder the columns
QuoteColumns == <<"fecha", "cotizacion", "volumen", "moneda">>

QuoteFrame(m, bars) ==
    [k \in 1..Len(bars) |-> [fecha |-> bars[k].Date,
                             cotizacion |-> bars[k].AdjClose,
                             volumen |-> bars[k].Volume,
                             moneda |-> m]]

\* dataframes_por_moneda[moneda] = data_moneda on an insertion-ordered dict,
\* kept as a sequence of [key, val]
DictSet(d, key, val) ==
    IF \E n \in 1..Len(d) : d[n].key = key
    THEN [n \in 1..Len(d) |-> IF d[n].key = key THEN [key |-> key, val |-> val]
                                                ELSE d[n]]
    ELSE Append(d, [key |-> key, val |-> val])

\* variant: only the frame of the last symbol is handed to pd.concat
DictValuesLast(d) == IF d = <<>> THEN <<>> ELSE <<d[Len(d)].val>>

\* list(dataframes_por_moneda.values())
DictValues(d) == [n \in 1..Len(d) |-> d[n].val]

\* one entry of the call log: the call, its argument and how it ended
Ev(op, arg, out) == [op |-> op, arg |-> arg, out |-> out]

\* ------------------------------------------------------------- state
VARIABLES
    run,        \* number of the invocation (1 for the first)
    clock,      \* day datetime.now() gave save_in_bucket in this run, 0 before
    entry,      \* function invoked: "lambda_handler" or "connect_to_mysql"
    pc,         \* statement the thread of control is at
    fetched,    \* number of tickers the for loop of get_market_value has done
    frames,     \* dataframes_por_moneda
    data,       \* merged_data (rows, in frame order)
    bucket,     \* objects of BUCKET_DEST: set of [key, header, body]
    attempts,   \* argument of connect_to_mysql
    delay,      \* argument of connect_to_mysql
    attempt,    \* local counter of connect_to_mysql
    connector,  \* outcome of the n-th mysql.connector.connect call
    cnx,        \* "unset", "None", "open" or "closed"
    row,        \* number of rows insert_data has executed
    inserted,   \* parameter tuples the cursor executed successfully
    committed,  \* parameter tuples made durable by cnx.commit(), over all runs
    log,        \* external calls issued so far, in order
    exc,        \* exception that ended the invocation, or "none"
    result,     \* "running", "raised", "None", "cnx" or "response"
    response    \* the dictionary lambda_handler returned, if it returned one

vars == <<run, clock, entry, pc, fetched, frames, data, bucket, attempts, delay, attempt,
          connector, cnx, row, inserted, committed, log, exc, result,
          response>>

\* ------------------------------------------------------------- log queries
Ops(op) == {n \in 1..Len(log) : log[n].op = op}
Count(op) == Cardinality(Ops(op))

\* ------------------------------------------------------------- outcomes
\* yf.download returns a table of 0..MaxBars bars, or raises
FetchOutcomes == (0..MaxBars) \cup {-1}
\* save_in_bucket: succeeds, os.environ['BUCKET_DEST'] raises KeyError, or
\* put_object raises
SaveOutcomes == {"ok", "env", "put"}
\* get_secret: succeeds, an os.environ lookup raises KeyError,
\* get_secret_value raises (missing or inaccessible), json.loads raises
SecretOutcomes == {"ok", "env", "client", "json"}
\* mysql.connector.connect: returns a connection, raises
\* mysql.connector.Error or IOError, raises something else
ConnectOutcomes == {"ok", "dberr", "other"}
\* a database call: returns or raises mysql.connector.Error
DbOutcomes == {"ok", "dberr"}
Days == 1..MaxDay

NoResponse == [statusCode |-> 0, body |-> ""]
\* lines 208-211
SuccessResponse == [statusCode |-> StatusOk, body |-> "Data scrapped successfully!"]

\* ------------------------------------------------------------- Init
Init ==
    /\ run = 1
    /\ clock = 0
    /\ entry \in {"lambda_handler", "connect_to_mysql"}
    /\ pc = IF entry = "lambda_handler" THEN "get_market_value"
                                        ELSE "connect_to_mysql"
    /\ IF entry = "lambda_handler"
       THEN attempts = DefaultAttempts /\ delay = DefaultDelay
       ELSE attempts \in 0..MaxAttempts /\ delay \in 1..MaxDelay
    /\ fetched = 0
    /\ frames = <<>>
    /\ data = <<>>
    /\ bucket = {}
    /\ attempt = 0
    /\ connector = <<>>
    /\ cnx = "unset"
    /\ row = 0
    /\ inserted = <<>>
    /\ committed = <<>>
    /\ log = <<>>
    /\ exc = "none"
    /\ result = "running"
    /\ response = NoResponse

\* An exception leaves the function the thread is in.  Inside lambda_handler
\* it reaches `except Exception as e: raise e` (lines 212-213) and is raised
\* again to the harness; connect_to_mysql called directly has no handler.
Raise(e) ==
    /\ exc' = e
    /\ result' = "raised"
    /\ pc' = "done"
    /\ response' = response

\* ------------------------------------------------- get_market_value
\* variant: a failing download is caught and its symbol skipped
DownloadSkipFailed ==
    /\ pc = "get_market_value"
    /\ fetched < Len(tickers)
    /\ LET moneda == tickers[fetched + 1] IN
       \E o \in FetchOutcomes :
          /\ log' = Append(log, Ev("download", fetched + 1,
                                    IF o = -1 THEN "raise" ELSE "ok"))
          /\ frames' = IF o = -1 THEN frames
                        ELSE DictSet(frames, moneda,
                                     QuoteFrame(moneda, ProviderBars(moneda, o)))
          /\ fetched' = fetched + 1
    /\ UNCHANGED <<run, clock, entry, pc, data, bucket, attempts, delay, attempt,
                   connector, cnx, row, inserted, committed, exc, result,
                   response>>

\* one iteration of the for loop, lines 153-175
Download ==
    /\ pc = "get_market_value"
    /\ fetched < Len(tickers)
    /\ LET moneda == tickers[fetched + 1] IN
       \E o \in FetchOutcomes :
          /\ log' = Append(log, Ev("download", fetched + 1,
                                    IF o = -1 THEN "raise" ELSE "ok"))
          /\ IF o = -1
             THEN /\ Raise("provider")
                  /\ UNCHANGED <<fetched, frames>>
             ELSE /\ frames' = DictSet(frames, moneda,
                                       QuoteFrame(moneda, ProviderBars(moneda, o)))
                  /\ fetched' = fetched + 1
                  /\ UNCHANGED <<pc, exc, result, response>>
    /\ UNCHANGED <<run, clock, entry, data, bucket, attempts, delay, attempt, connector,
                   cnx, row, inserted, committed>>

\* variant: the archive step is left out of the sequence
AfterGetMarketValueSkipsArchive == "connect_to_mysql"

\* statement of lambda_handler that follows `data = get_market_value()`
AfterGetMarketValue == "save_in_bucket"

\* lines 177-182 and the assignment on line 202
Concat ==
    /\ pc = "get_market_value"
    /\ fetched = Len(tickers)
    /\ data' = Flatten(DictValues(frames))
    /\ pc' = AfterGetMarketValue
    /\ UNCHANGED <<run, clock, entry, fetched, frames, bucket, attempts, delay, attempt,
                   connector, cnx, row, inserted, committed, log, exc, result,
                   response>>

\* ------------------------------------------------- save_in_bucket
\* merged_data.to_csv(csv_buffer, index=False): a header naming the columns
\* and one line per row with the values in column order
CsvLine(r) == [c \in 1..Len(QuoteColumns) |-> r[QuoteColumns[c]]]
ToCsv(rows) == [header |-> QuoteColumns,
                lines |-> [k \in 1..Len(rows) |-> CsvLine(rows[k])]]

\* variant: the key is the day save_in_bucket runs on
ArchiveKeyToday(now) == now

\* (datetime.now()-timedelta(days=1)).strftime('%Y-%m-%d'), as a day number
ArchiveKey(now) == now - KeyDaysBack

\* put_object creates the object or overwrites the one under the same key
PutObject(b, key, body) ==
    {o \in b : o.key # key} \cup {[key |-> key, body |-> body]}

\* statement of lambda_handler that follows `save_in_bucket(data)`
AfterSaveInBucket == "connect_to_mysql"

\* lines 124-137
SaveInBucket ==
    /\ pc = "save_in_bucket"
    /\ \E o \in SaveOutcomes, now \in Days :
          IF o = "env"
          THEN Raise("KeyError BUCKET_DEST") /\ UNCHANGED <<bucket, log, clock>>
          ELSE /\ clock' = now
               /\ log' = Append(log, Ev("put_object", ArchiveKey(now),
                                         IF o = "ok" THEN "ok" ELSE "raise"))
               /\ IF o = "ok"
                  THEN /\ bucket' = PutObject(bucket, ArchiveKey(now), ToCsv(data))
                       /\ pc' = AfterSaveInBucket
                       /\ UNCHANGED <<exc, result, response>>
                  ELSE Raise("ClientError put_object") /\ UNCHANGED bucket
    /\ UNCHANGED <<run, entry, fetched, frames, data, attempts, delay, attempt,
                   connector, cnx, row, inserted, committed>>

\* ------------------------------------------------- connect_to_mysql
\* statement reached when connect_to_mysql returns `v` ("open" or "None")
Return(v) ==
    /\ cnx' = v
    /\ exc' = exc
    /\ response' = response
    /\ IF entry = "connect_to_mysql"
       THEN /\ pc' = "done"
            /\ result' = IF v = "None" THEN "None" ELSE "cnx"
       ELSE /\ pc' = "check_cnx"
            /\ result' = result

\* variant: a failed get_secret_value call is tried again
GetSecretRetry ==
    /\ pc = "connect_to_mysql"
    /\ \E o \in SecretOutcomes :
          IF o = "env"
          THEN Raise("KeyError SECRET_NAME") /\ UNCHANGED <<log, attempt, connector>>
          ELSE /\ log' = Append(log, Ev("get_secret", 0, o))
               /\ IF o = "ok"
                  THEN /\ \E c \in [1..attempts -> ConnectOutcomes] :
                             connector' = c
                       /\ attempt' = 1
                       /\ pc' = "connect"
                       /\ UNCHANGED <<exc, result, response>>
                  ELSE IF o = "client" /\ Count("get_secret") = 0
                  THEN UNCHANGED <<pc, exc, result, response, attempt, connector>>
                  ELSE /\ Raise(IF o = "client" THEN "ClientError get_secret_value"
                                                ELSE "JSONDecodeError")
                       /\ UNCHANGED <<attempt, connector>>
    /\ UNCHANGED <<run, clock, entry, fetched, frames, data, bucket, attempts, delay, cnx,
                   row, inserted, committed>>

\* variant: when the lookup fails the object archived by this run is deleted
GetSecretUndoArchive ==
    /\ pc = "connect_to_mysql"
    /\ \E o \in SecretOutcomes :
          IF o = "env"
          THEN /\ Raise("KeyError SECRET_NAME")
               /\ bucket' = {b \in bucket : b.key # clock - KeyDaysBack}
               /\ UNCHANGED <<log, attempt, connector>>
          ELSE /\ log' = Append(log, Ev("get_secret", 0, o))
               /\ IF o = "ok"
                  THEN /\ \E c \in [1..attempts -> ConnectOutcomes] :
                             connector' = c
                       /\ attempt' = 1
                       /\ pc' = "connect"
                       /\ UNCHANGED <<bucket, exc, result, response>>
                  ELSE /\ Raise(IF o = "client" THEN "ClientError get_secret_value"
                                                ELSE "JSONDecodeError")
                       /\ bucket' = {b \in bucket : b.key # clock - KeyDaysBack}
                       /\ UNCHANGED <<attempt, connector>>
    /\ UNCHANGED <<run, clock, entry, fetched, frames, data, attempts, delay,
                   cnx, row, inserted, committed>>

\* get_secret(), called on line 82 before the first connection attempt.
\* The connector the configuration reaches is fixed here: connector[n] is
\* what the n-th mysql.connector.connect call will do, for each of the
\* `attempts` calls the loop can make.
GetSecret ==
    /\ pc = "connect_to_mysql"
    /\ \E o \in SecretOutcomes :
          IF o = "env"
          THEN Raise("KeyError SECRET_NAME") /\ UNCHANGED <<log, attempt, connector>>
          ELSE /\ log' = Append(log, Ev("get_secret", 0, o))
               /\ IF o = "ok"
                  THEN /\ \E c \in [1..attempts -> ConnectOutcomes] :
                             connector' = c
                       /\ attempt' = 1
                       /\ pc' = "connect"
                       /\ UNCHANGED <<exc, result, response>>
                  ELSE /\ Raise(IF o = "client" THEN "ClientError get_secret_value"
                                                ELSE "JSONDecodeError")
                       /\ UNCHANGED <<attempt, connector>>
    /\ UNCHANGED <<run, clock, entry, fetched, frames, data, bucket, attempts, delay, cnx,
                   row, inserted, committed>>

\* names bound in connect_to_mysql when the except clause runs
ConnectLocals == {"attempts", "delay", "secret", "config", "attempt", "err"}
\* names bound at module level, lines 1-13 and the six function definitions
ModuleGlobals ==
    {"logging", "json", "pd", "boto3", "io", "mysql", "os", "time", "yf",
     "datetime", "timedelta", "Any", "Dict", "Optional", "Union", "logger",
     "insert_data", "get_secret", "connect_to_mysql", "save_in_bucket",
     "get_market_value", "lambda_handler"}
\* variant: the message reads the parameter `attempts`
RetryMessageNamesSpelled == {"err", "attempt", "attempts"}

\* names the f-string on line 109 reads
RetryMessageNames == {"err", "attempt", "attemps"}
\* evaluating the f-string raises NameError when one of them is unbound
RetryMessageRaises == ~(RetryMessageNames \subseteq ConnectLocals \cup ModuleGlobals)

\* variant: no give-up test in the except clause; every database error is
\* followed by a sleep and attempt += 1
ConnectAttemptNoGiveUp ==
    /\ pc = "connect"
    /\ attempt < attempts + 1
    /\ LET called == Append(log, Ev("connect", attempt, connector[attempt])) IN
       CASE connector[attempt] = "ok" ->
               /\ log' = called
               /\ Return("open")
               /\ UNCHANGED attempt
         [] connector[attempt] = "dberr" ->
               /\ log' = Append(called, Ev("sleep", Pow(delay, attempt), "ok"))
               /\ attempt' = attempt + 1
               /\ UNCHANGED <<pc, cnx, exc, result, response>>
         [] OTHER ->
               /\ log' = called
               /\ Raise("other")
               /\ UNCHANGED <<attempt, cnx>>
    /\ UNCHANGED <<run, clock, entry, fetched, frames, data, bucket, attempts,
                   delay, connector, row, inserted, committed>>

\* variant: the except clause catches every Exception, not only
\* mysql.connector.Error and IOError
ConnectAttemptCatchAll ==
    /\ pc = "connect"
    /\ attempt < attempts + 1
    /\ LET called == Append(log, Ev("connect", attempt, connector[attempt])) IN
       IF connector[attempt] = "ok"
       THEN /\ log' = called
            /\ Return("open")
            /\ UNCHANGED attempt
       ELSE IF attempt = attempts
       THEN /\ log' = called
            /\ Return("None")
            /\ UNCHANGED attempt
       ELSE IF RetryMessageRaises
       THEN /\ log' = called
            /\ Raise("NameError")
            /\ UNCHANGED <<attempt, cnx>>
       ELSE /\ log' = Append(called, Ev("sleep", Pow(delay, attempt), "ok"))
            /\ attempt' = attempt + 1
            /\ UNCHANGED <<pc, cnx, exc, result, response>>
    /\ UNCHANGED <<run, clock, entry, fetched, frames, data, bucket, attempts,
                   delay, connector, row, inserted, committed>>

\* one iteration of the while loop, lines 96-113.  `return cnx` on line 104
\* ends the calls to the connector: the outcomes scripted for calls that are
\* never made are dropped.
ConnectAttempt ==
    /\ pc = "connect"
    /\ attempt < attempts + 1
    /\ LET called == Append(log, Ev("connect", attempt, connector[attempt])) IN
       CASE connector[attempt] = "ok" ->
               /\ log' = called
               /\ Return("open")
               /\ connector' = SubSeq(connector, 1, attempt)
               /\ UNCHANGED attempt
         [] connector[attempt] = "dberr" ->
               IF attempt = attempts
               THEN /\ log' = called
                    /\ Return("None")
                    /\ UNCHANGED <<attempt, connector>>
               ELSE IF RetryMessageRaises
               THEN /\ log' = called
                    /\ Raise("NameError")
                    /\ UNCHANGED <<attempt, cnx, connector>>
               ELSE /\ log' = Append(called, Ev("sleep", Pow(delay, attempt), "ok"))
                    /\ attempt' = attempt + 1
                    /\ UNCHANGED <<pc, cnx, exc, result, response, connector>>
         [] OTHER ->
               /\ log' = called
               /\ Raise("other")
               /\ UNCHANGED <<attempt, cnx, connector>>
    /\ UNCHANGED <<run, clock, entry, fetched, frames, data, bucket, attempts, delay,
                   row, inserted, committed>>

\* the while condition is false: line 114
ConnectLoopExit ==
    /\ pc = "connect"
    /\ ~(attempt < attempts + 1)
    /\ Return("None")
    /\ UNCHANGED <<run, clock, entry, fetched, frames, data, bucket, attempts, delay,
                   attempt, connector, row, inserted, committed, log>>

\* ------------------------------------------------- lambda_handler, line 205
\* `if cnx is not None:`; when the test fails the function body ends and the
\* call evaluates to None
CheckCnx ==
    /\ pc = "check_cnx"
    /\ IF cnx # "None"
       THEN pc' = "insert_data" /\ result' = result
       ELSE pc' = "done" /\ result' = "None"
    /\ UNCHANGED <<run, clock, entry, fetched, frames, data, bucket, attempts, delay,
                   attempt, connector, cnx, row, inserted, committed, log, exc,
                   response>>

\* ------------------------------------------------- insert_data
\* columns named by the INSERT statement on line 30
InsertColumns == <<"fecha", "moneda", "Cotizacion", "volumen">>

\* pd.Timestamp.to_pydatetime: the datetime of the same instant (daily bars
\* carry no sub-microsecond part to drop)
ToPydatetime(ts) == [day |-> ts, microsecond |-> 0]

\* variant: price and volume change places in the parameter tuple
RowParamsSwapped(r) == <<ToPydatetime(r.fecha), r.moneda, r.volumen, r.cotizacion>>

\* data_moneda, lines 37-42
RowParams(r) == <<ToPydatetime(r.fecha), r.moneda, r.cotizacion, r.volumen>>

\* lines 27-33: table name lookup and cnx.cursor()
InsertBegin ==
    /\ pc = "insert_data"
    /\ \E o \in {"ok", "env", "dberr"} :
          IF o = "env"
          THEN Raise("KeyError DB_TABLE_NAME") /\ UNCHANGED <<log, row>>
          ELSE /\ log' = Append(log, Ev("cursor", 0, o))
               /\ IF o = "ok"
                  THEN /\ row' = 0
                       /\ pc' = "execute"
                       /\ UNCHANGED <<exc, result, response>>
                  ELSE Raise("mysql.Error") /\ UNCHANGED row
    /\ UNCHANGED <<run, clock, entry, fetched, frames, data, bucket, attempts, delay,
                   attempt, connector, cnx, inserted, committed>>

\* variant: every executed row is committed at once
ExecuteCommitEach ==
    /\ pc = "execute"
    /\ row < Len(data)
    /\ \E o \in DbOutcomes :
          IF o = "ok"
          THEN /\ log' = log \o <<Ev("execute", row + 1, o), Ev("commit", 0, o)>>
               /\ inserted' = Append(inserted, RowParams(data[row + 1]))
               /\ committed' = inserted'
               /\ row' = row + 1
               /\ UNCHANGED <<pc, exc, result, response>>
          ELSE /\ log' = Append(log, Ev("execute", row + 1, o))
               /\ Raise("mysql.Error")
               /\ UNCHANGED <<inserted, committed, row>>
    /\ UNCHANGED <<run, clock, entry, fetched, frames, data, bucket, attempts, delay,
                   attempt, connector, cnx>>

\* variant: a row whose insert fails is logged and skipped
ExecuteSkipFailed ==
    /\ pc = "execute"
    /\ row < Len(data)
    /\ \E o \in DbOutcomes :
          /\ log' = Append(log, Ev("execute", row + 1, o))
          /\ inserted' = IF o = "ok"
                          THEN Append(inserted, RowParams(data[row + 1]))
                          ELSE inserted
          /\ row' = row + 1
    /\ UNCHANGED <<run, clock, entry, pc, fetched, frames, data, bucket, attempts, delay,
                   attempt, connector, cnx, committed, exc, result, response>>

\* one iteration of the for loop, lines 36-43
Execute ==
    /\ pc = "execute"
    /\ row < Len(data)
    /\ \E o \in DbOutcomes :
          /\ log' = Append(log, Ev("execute", row + 1, o))
          /\ IF o = "ok"
             THEN /\ inserted' = Append(inserted, RowParams(data[row + 1]))
                  /\ row' = row + 1
                  /\ UNCHANGED <<pc, exc, result, response>>
             ELSE Raise("mysql.Error") /\ UNCHANGED <<inserted, row>>
    /\ UNCHANGED <<run, clock, entry, fetched, frames, data, bucket, attempts, delay,
                   attempt, connector, cnx, committed>>

\* cnx.commit(), line 46
Commit ==
    /\ pc = "execute"
    /\ row = Len(data)
    /\ \E o \in DbOutcomes :
          /\ log' = Append(log, Ev("commit", 0, o))
          /\ IF o = "ok"
             THEN /\ committed' = committed \o inserted
                  /\ pc' = "cursor_close"
                  /\ UNCHANGED <<exc, result, response>>
             ELSE Raise("mysql.Error") /\ UNCHANGED committed
    /\ UNCHANGED <<run, clock, entry, fetched, frames, data, bucket, attempts, delay,
                   attempt, connector, cnx, row, inserted>>

\* cursor.close(), line 49
CursorClose ==
    /\ pc = "cursor_close"
    /\ \E o \in DbOutcomes :
          /\ log' = Append(log, Ev("cursor_close", 0, o))
          /\ IF o = "ok"
             THEN pc' = "cnx_close" /\ UNCHANGED <<exc, result, response>>
             ELSE Raise("mysql.Error")
    /\ UNCHANGED <<run, clock, entry, fetched, frames, data, bucket, attempts, delay,
                   attempt, connector, cnx, row, inserted, committed>>

\* ------------------------------------------------- lambda_handler, 207-211
CnxClose ==
    /\ pc = "cnx_close"
    /\ \E o \in DbOutcomes :
          /\ log' = Append(log, Ev("cnx_close", 0, o))
          /\ IF o = "ok"
             THEN /\ cnx' = "closed"
                  /\ response' = SuccessResponse
                  /\ result' = "response"
                  /\ pc' = "done"
                  /\ exc' = exc
             ELSE Raise("mysql.Error") /\ UNCHANGED cnx
    /\ UNCHANGED <<run, clock, entry, fetched, frames, data, bucket, attempts, delay,
                   attempt, connector, row, inserted, committed>>

\* ------------------------------------------------------------- Next
Next ==
    \/ Download
    \/ Concat
    \/ SaveInBucket
    \/ GetSecret
    \/ ConnectAttempt
    \/ ConnectLoopExit
    \/ CheckCnx
    \/ InsertBegin
    \/ Execute
    \/ Commit
    \/ CursorClose
    \/ CnxClose

Spec == Init /\ [][Next]_vars

\* ------------------------------------------------------------- re-runs
\* The harness invokes lambda_handler again (e.g. on its schedule) once an
\* invocation has ended.  The bucket and the database keep their contents;
\* everything else is local to an invocation and starts afresh.  To bound the
\* state space a further invocation is followed only after a run that
\* fetched one bar for every symbol, archived it and returned the response.
FollowedRun ==
    /\ fetched = Len(tickers)
    /\ \A n \in 1..Len(frames) : Len(frames[n].val) = 1
    /\ bucket # {}
    /\ result = "response"

Invoke ==
    /\ entry = "lambda_handler"
    /\ pc = "done"
    /\ run < MaxRuns
    /\ FollowedRun
    /\ run' = run + 1
    /\ clock' = 0
    /\ pc' = "get_market_value"
    /\ fetched' = 0
    /\ frames' = <<>>
    /\ data' = <<>>
    /\ attempt' = 0
    /\ connector' = <<>>
    /\ cnx' = "unset"
    /\ row' = 0
    /\ inserted' = <<>>
    /\ log' = <<>>
    /\ exc' = "none"
    /\ result' = "running"
    /\ response' = NoResponse
    /\ UNCHANGED <<entry, bucket, attempts, delay, committed>>

\* The single thread of control keeps running: a statement that can execute
\* does execute.
FairSpec == Spec /\ WF_vars(Next)

NextRuns == Next \/ Invoke

SpecRuns == Init /\ [][NextRuns]_vars

TypeOK ==
    /\ run \in 1..MaxRuns
    /\ clock \in {0} \cup Days
    /\ entry \in {"lambda_handler", "connect_to_mysql"}
    /\ pc \in {"get_market_value", "save_in_bucket", "connect_to_mysql",
               "connect", "check_cnx", "insert_data", "execute",
               "cursor_close", "cnx_close", "done"}
    /\ fetched \in 0..Len(tickers)
    /\ attempt \in 0..(attempts + 1)
    /\ cnx \in {"unset", "None", "open", "closed"}
    /\ row \in 0..Len(data)
    /\ result \in {"running", "raised", "None", "cnx", "response"}
    /\ (pc = "done") = (result # "running")

\* ------------------------------------------------------------- observations
\* the calls of the log without their outcomes
Calls(l) == [n \in 1..Len(l) |-> [op |-> l[n].op, arg |-> l[n].arg]]
IsConnectEvent(e) == e.op \in {"connect", "sleep"}
\* what connect_to_mysql did: its connect calls and sleeps, in order
ConnectLog == Calls(SelectSeq(log, IsConnectEvent))
SecretOk == \E n \in Ops("get_secret") : log[n].out = "ok"
\* connect_to_mysql has entered its loop and left it (returned or raised)
ConnectOver == SecretOk /\ pc # "connect"
\* connect, sleep delay^1, connect, ..., sleep delay^k, connect
Backoff(k) ==
    [n \in 1..(2 * k + 1) |->
        IF n % 2 = 1 THEN [op |-> "connect", arg |-> (n + 1) \div 2]
                     ELSE [op |-> "sleep", arg |-> Pow(delay, n \div 2)]]
\* the connector fails with a database error on calls 1..k and then succeeds
FailsThenSucceeds(k) ==
    /\ k < attempts
    /\ k < Len(connector)
    /\ \A n \in 1..k : connector[n] = "dberr"
    /\ connector[k + 1] = "ok"
\* the connector fails with a database error on every call
AlwaysFails ==
    /\ attempts >= 1
    /\ Len(connector) = attempts
    /\ \A n \in 1..attempts : connector[n] = "dberr"

\* ------------------------------------------------------------- claims

\* C1: connect_to_mysql(attempts, delay) with a connector that fails on
\* attempts 1..k (k < attempts) and succeeds on attempt k+1 returns that
\* connection after exactly k sleeps of delay^1, ..., delay^k, each between a
\* failed attempt and the next one.
C1_BackoffThenConnection ==
    \A k \in 0..MaxAttempts :
        (ConnectOver /\ FailsThenSucceeds(k)) =>
            /\ cnx \in {"open", "closed"}
            /\ ConnectLog = Backoff(k)

\* C2: connect_to_mysql with a connector that fails on every attempt returns
\* None, without raising, after exactly `attempts` connect calls and with no
\* sleep after the last one.
C2_ExhaustedReturnsNone ==
    (ConnectOver /\ AlwaysFails) =>
        /\ cnx = "None"
        /\ exc = "none"
        /\ Count("connect") = attempts
        /\ ConnectLog[Len(ConnectLog)].op = "connect"

\* C3: a run of lambda_handler whose fetch and archive succeed and whose
\* connector never yields a connection returns the success response, with
\* the archive written and no insert or commit.
C3_ArchiveOnlySuccess ==
    (entry = "lambda_handler" /\ pc = "done" /\ SecretOk /\ AlwaysFails) =>
        /\ result = "response"
        /\ response = SuccessResponse
        /\ bucket # {}
        /\ Count("execute") = 0
        /\ Count("commit") = 0

\* C4: if the quote provider raises for a symbol, whatever its position, the
\* run fails with that error: the download is the last call of the run (no
\* retry of the symbol, no archive write, no secret lookup, no connection
\* attempt, no insert) and nothing is archived or inserted for the symbols
\* fetched before it.
C4_FetchFailureIsFatal ==
    \A n \in Ops("download") :
        log[n].out = "raise" =>
            /\ n = Len(log)
            /\ pc = "done" /\ result = "raised" /\ exc = "provider"
            /\ response = NoResponse
            /\ bucket = {}
            /\ Count("put_object") = 0 /\ Count("get_secret") = 0
            /\ Count("connect") = 0 /\ Count("execute") = 0
            /\ inserted = <<>> /\ committed = <<>>
            /\ Cardinality({k \in Ops("download") : log[k].arg = log[n].arg}) = 1

\* the provider raises for the third symbol after two symbols gave a bar
C4_Witness ==
    /\ \E n \in Ops("download") : log[n].out = "raise" /\ log[n].arg = 3
    /\ Len(frames) = 2 /\ Len(frames[1].val) = 1 /\ Len(frames[2].val) = 1
    /\ pc = "done"

IsInsertEvent(e) ==
    e.op \in {"cursor", "execute", "commit", "rollback", "cursor_close"}
\* what insert_data asked of the connection, in order
InsertLog == Calls(SelectSeq(log, IsInsertEvent))
\* cursor, execute row 1, ..., execute row N, commit, cursor.close
InsertScript ==
    <<[op |-> "cursor", arg |-> 0]>>
    \o [k \in 1..Len(data) |-> [op |-> "execute", arg |-> k]]
    \o <<[op |-> "commit", arg |-> 0], [op |-> "cursor_close", arg |-> 0]>>
IsPrefix(a, b) == Len(a) <= Len(b) /\ \A n \in 1..Len(a) : a[n] = b[n]
InsertDataReturned == pc = "cnx_close" \/ Count("cnx_close") > 0

\* C5: insert_data executes one insert per record, in order, then one commit
\* after the last insert, then closes the cursor: its calls are always a
\* prefix of that script (so no commit comes between inserts), and when it
\* returns they are the whole script, with N rows inserted and committed.
C5_InsertsThenOneCommit ==
    /\ IsPrefix(InsertLog, InsertScript)
    /\ InsertDataReturned =>
          /\ InsertLog = InsertScript
          /\ Count("execute") = Len(data)
          /\ Count("commit") = 1
          /\ Len(inserted) = Len(data)
          /\ committed = inserted

\* insert_data returned after inserting 2 records and committing once
C5_Witness ==
    /\ pc = "cnx_close"
    /\ Len(data) = 2
    /\ Count("execute") = 2
    /\ Count("commit") = 1

IsExecute(e) == e.op = "execute"

\* C6: if the insert of the k-th record raises, that call is the last of the
\* run, which fails with the database error: no commit and no rollback is
\* issued, nothing is committed, and the inserts attempted are rows 1..k,
\* each once (no retry of row k, no later row).
C6_InsertFailureAborts ==
    \A n \in Ops("execute") :
        log[n].out = "dberr" =>
            /\ n = Len(log)
            /\ pc = "done" /\ result = "raised" /\ exc = "mysql.Error"
            /\ response = NoResponse
            /\ Count("commit") = 0 /\ Count("rollback") = 0
            /\ committed = <<>>
            /\ Calls(SelectSeq(log, IsExecute))
                  = [j \in 1..log[n].arg |-> [op |-> "execute", arg |-> j]]

\* the second insert raises after the first one succeeded
C6_Witness ==
    /\ \E n \in Ops("execute") : log[n].out = "dberr" /\ log[n].arg = 2
    /\ Len(inserted) = 1
    /\ pc = "done"

\* a call that raised out of its step (a database error of a connect call is
\* handled inside connect_to_mysql)
Failed(e) == e.out # "ok" /\ ~(e.op = "connect" /\ e.out = "dberr")
NoCall(ops) == \A n \in 1..Len(log) : log[n].op \notin ops

\* C7: a run of lambda_handler executes fetch, archive, connect, insert in
\* strict sequence: the archive write comes right after the downloads of all
\* symbols, the secret lookup right after a successful archive write, every
\* connection attempt after a successful lookup, every insert call after a
\* successful connect; and a call that raised is the last call of the run.
C7_StrictSequence ==
    entry = "lambda_handler" =>
        /\ \A n \in Ops("put_object") :
              /\ n = Len(tickers) + 1
              /\ \A k \in 1..Len(tickers) : log[k] = Ev("download", k, "ok")
        /\ \A n \in Ops("get_secret") :
              n > 1 /\ log[n - 1].op = "put_object" /\ log[n - 1].out = "ok"
        /\ \A n \in Ops("connect") :
              \E k \in Ops("get_secret") : k < n /\ log[k].out = "ok"
        /\ \A n \in Ops("cursor") \cup Ops("execute") :
              \E k \in Ops("connect") : k < n /\ log[k].out = "ok"
        /\ \A n \in 1..Len(log) :
              Failed(log[n]) => n = Len(log) /\ result = "raised"
        /\ result = "raised" => pc = "done"
        /\ exc = "KeyError BUCKET_DEST" =>
              NoCall({"put_object", "get_secret", "connect", "cursor", "execute"})
        /\ exc = "KeyError SECRET_NAME" =>
              NoCall({"get_secret", "connect", "cursor", "execute"})
        /\ exc = "KeyError DB_TABLE_NAME" => NoCall({"cursor", "execute"})

\* a run that went through all four steps and inserted something
C7_Witness ==
    /\ entry = "lambda_handler"
    /\ result = "response"
    /\ Count("put_object") = 1
    /\ Count("execute") >= 1

AtMostOneBarEach == \A n \in 1..Len(frames) : Len(frames[n].val) <= 1
FetchDone ==
    entry = "lambda_handler" /\ pc # "get_market_value" /\ fetched = Len(tickers)

\* C8: when the provider returns zero or one bar per symbol, the Fetcher's
\* output has at most as many records as the symbol list, every record's
\* symbol is in the list, the records are in list order, and the symbols
\* present are exactly those that had a bar.
C8_OutputWithinInput ==
    (FetchDone /\ AtMostOneBarEach) =>
        /\ Len(data) <= Len(tickers)
        /\ \A n \in 1..Len(data) : \E k \in 1..Len(tickers) : tickers[k] = data[n].moneda
        /\ \A a, b \in 1..Len(data) :
              a < b => TickerIndex(data[a].moneda) < TickerIndex(data[b].moneda)
        /\ {data[n].moneda : n \in 1..Len(data)}
              = {frames[n].key : n \in {k \in 1..Len(frames) : Len(frames[k].val) = 1}}

\* the first symbol had no bar and three of the others had one
C8_Witness ==
    /\ FetchDone /\ AtMostOneBarEach
    /\ Len(frames[1].val) = 0
    /\ Len(data) = 3
    /\ pc = "save_in_bucket"

\* C9: an invocation of lambda_handler that has ended either returned the
\* response {statusCode: 200, body: "Data scrapped successfully!"} or raised
\* an exception; it never returned anything else.
C9_ResponseOrException ==
    (entry = "lambda_handler" /\ pc = "done") =>
        \/ result = "response" /\ response = SuccessResponse /\ exc = "none"
        \/ result = "raised" /\ exc # "none" /\ response = NoResponse

\* a run ended by a failed connection attempt
C9_Witness ==
    /\ entry = "lambda_handler" /\ pc = "done"
    /\ \E n \in Ops("connect") : log[n].out = "dberr"
    /\ result = "raised"

\* C10: the secret lookup is made at most once per run, and when it fails it
\* is the last call of the run: no connection attempt, no sleep and no
\* insert happen, and the run ends with the exception, not with a response.
C10_SecretFailureIsFatal ==
    /\ Count("get_secret") <= 1
    /\ \A n \in Ops("get_secret") :
          log[n].out # "ok" =>
              /\ n = Len(log)
              /\ pc = "done" /\ result = "raised"
              /\ exc \in {"ClientError get_secret_value", "JSONDecodeError"}
              /\ response = NoResponse
    /\ exc \in {"ClientError get_secret_value", "JSONDecodeError",
                 "KeyError SECRET_NAME"} =>
          /\ pc = "done" /\ result = "raised" /\ response = NoResponse
          /\ NoCall({"connect", "sleep", "cursor", "execute", "commit"})
          /\ inserted = <<>>

\* a run whose archive was written and whose secret did not parse
C10_Witness ==
    /\ entry = "lambda_handler"
    /\ bucket # {}
    /\ \E n \in Ops("get_secret") : log[n].out = "json"
    /\ pc = "done"

\* the run obtained a connection from mysql.connector.connect
ConnectionOpened == \E n \in Ops("connect") : log[n].out = "ok"

FieldOf(c) ==
    CASE c = "fecha" -> "date"
      [] c = "moneda" -> "symbol"
      [] c \in {"cotizacion", "Cotizacion"} -> "price"
      [] c = "volumen" -> "volume"
Fields(cols) == [n \in 1..Len(cols) |-> FieldOf(cols[n])]
FixedOrder == <<"date", "symbol", "price", "volume">>
FetchOrder == <<"date", "price", "volume", "symbol">>

\* C12 as stated: the archived file and the insert both use the field order
\* (date, symbol, price, volume).
C12_SameFieldOrder ==
    /\ \A o \in bucket : Fields(o.body.header) = FixedOrder
    /\ inserted # <<>> => Fields(InsertColumns) = FixedOrder

\* C12 as amended: the insert uses the order (date, symbol, price, volume);
\* the archived file uses the order the fetch step produces, (date, price,
\* volume, symbol); in both, every value is the record's value of the field
\* its position names.
C12_FieldOrders ==
    /\ \A o \in bucket :
          /\ Fields(o.body.header) = FetchOrder
          /\ Len(o.body.lines) = Len(data)
          /\ \A k \in 1..Len(o.body.lines) :
                /\ Len(o.body.lines[k]) = Len(o.body.header)
                /\ o.body.lines[k][1] = data[k].fecha
                /\ o.body.lines[k][2] = data[k].cotizacion
                /\ o.body.lines[k][3] = data[k].volumen
                /\ o.body.lines[k][4] = data[k].moneda
    /\ Fields(InsertColumns) = FixedOrder
    /\ \A n \in 1..Len(inserted) :
          /\ Len(inserted[n]) = Len(InsertColumns)
          /\ inserted[n][1] = ToPydatetime(data[n].fecha)
          /\ inserted[n][2] = data[n].moneda
          /\ inserted[n][3] = data[n].cotizacion
          /\ inserted[n][4] = data[n].volumen

\* a run that archived a file with rows and inserted a row
C12_Witness ==
    /\ \E o \in bucket : Len(o.body.lines) >= 1
    /\ Len(inserted) >= 1

\* the records a CSV body holds, read back through its header
ParseCsv(body) ==
    [k \in 1..Len(body.lines) |->
        [f \in {body.header[c] : c \in 1..Len(body.header)} |->
            body.lines[k][CHOOSE c \in 1..Len(body.header) : body.header[c] = f]]]
\* the records the cursor has inserted, read back through the INSERT columns
InsertedRecords ==
    [n \in 1..Len(inserted) |-> [fecha |-> inserted[n][1].day,
                                 moneda |-> inserted[n][2],
                                 cotizacion |-> inserted[n][3],
                                 volumen |-> inserted[n][4]]]
\* the object this run archived holds exactly the records `recs`
ArchiveHolds(recs) ==
    \A n \in Ops("put_object") :
        log[n].out = "ok" =>
            \E o \in bucket : o.key = log[n].arg /\ ParseCsv(o.body) = recs

\* C13 as stated: in a run that reached the insert step, the records archived
\* and the records inserted are both the Fetcher's output sequence.
C13_SinksEqualFetcherOutput ==
    (entry = "lambda_handler" /\ pc = "done" /\ Count("execute") >= 1) =>
        /\ ArchiveHolds(data)
        /\ InsertedRecords = data

\* C13 as amended: the records archived are the Fetcher's output sequence;
\* the records inserted are always a prefix of it, same values and order, and
\* are the whole sequence once insert_data has returned; a run whose k-th
\* insert raised has inserted records 1..k-1 only.
C13_SinksFollowFetcherOutput ==
    entry = "lambda_handler" =>
        /\ ArchiveHolds(data)
        /\ IsPrefix(InsertedRecords, data)
        /\ InsertDataReturned => InsertedRecords = data
        /\ \A n \in Ops("execute") :
              log[n].out = "dberr" => Len(inserted) = log[n].arg - 1

\* insert_data returned in a run that fetched at least two records
C13_Witness ==
    /\ entry = "lambda_handler"
    /\ InsertDataReturned
    /\ Len(data) >= 2
    /\ bucket # {}

\* save_in_bucket ran past its configuration lookup (line 124)
ArchiverRan ==
    /\ entry = "lambda_handler"
    /\ pc \notin {"get_market_value", "save_in_bucket"}
    /\ exc \notin {"provider", "KeyError BUCKET_DEST"}

\* C14: a run whose Archiver runs makes exactly one put_object call, under the
\* key of the day before the day datetime.now() gave, whatever the dates of
\* the records; the bucket holds one object per key, and after a successful
\* write the object under that key holds this run's records (so a re-run on
\* the same day replaces the earlier run's object).
C14_OneWriteUnderYesterdayKey ==
    /\ Count("put_object") <= 1
    /\ ArchiverRan => Count("put_object") = 1
    /\ \A n \in Ops("put_object") : log[n].arg = clock - KeyDaysBack
    /\ \A o1, o2 \in bucket : o1.key = o2.key => o1 = o2
    /\ \A n \in Ops("put_object") :
          log[n].out = "ok" =>
              /\ \E o \in bucket : o.key = log[n].arg
              /\ \A o \in bucket : o.key = log[n].arg => o.body = ToCsv(data)

\* the second run archives three records on the day the first run archived
\* five: the bucket holds one object, with the three records, under a key
\* that is not the date of any of them
C14_Witness ==
    /\ run = 2
    /\ Len(data) = 3
    /\ bucket = {[key |-> clock - KeyDaysBack, body |-> ToCsv(data)]}
    /\ \A k \in 1..Len(data) : data[k].fecha # clock - KeyDaysBack

\* positions of the records of symbol `m` in the Fetcher's output
RecordsOf(m) == {n \in 1..Len(data) : data[n].moneda = m}

\* C15 as stated: the Fetcher's output of a completed fetch holds exactly one
\* record per configured symbol.
C15_OneRecordPerSymbol ==
    FetchDone =>
        \A k \in 1..Len(tickers) : Cardinality(RecordsOf(tickers[k])) = 1

\* C15 as amended: the Fetcher's output of a completed fetch holds, for each
\* configured symbol, one record per bar the provider returned for it:
\* exactly one when it returned one bar, none when it returned none.
C15_OneRecordPerBar ==
    FetchDone =>
        /\ Len(frames) = Len(tickers)
        /\ \A k \in 1..Len(tickers) :
              /\ frames[k].key = tickers[k]
              /\ Cardinality(RecordsOf(tickers[k])) = Len(frames[k].val)
              /\ Len(frames[k].val) = 1 =>
                    \A n \in RecordsOf(tickers[k]) : data[n] = frames[k].val[1]

\* a completed fetch in which one symbol had no bar, one had one, one had two
C15_Witness ==
    /\ FetchDone
    /\ Len(frames[1].val) = 0
    /\ Len(frames[2].val) = 1
    /\ Len(frames[3].val) = 2
    /\ Cardinality(RecordsOf(tickers[2])) = 1

\* C16: for attempts >= 1, connect_to_mysql makes at most `attempts` connect
\* calls and at most attempts-1 sleeps and its counter never exceeds
\* `attempts`; a step that stays in the loop increases the counter; and the
\* function terminates: once in the loop, it leaves it.
C16_BoundedAttempts ==
    /\ [](attempts >= 1 =>
            /\ Count("connect") <= attempts
            /\ Count("sleep") <= attempts - 1
            /\ attempt <= attempts)
    /\ [][(pc = "connect" /\ pc' = "connect") => attempt' = attempt + 1]_vars
    /\ (pc = "connect" /\ attempts >= 1) ~> (pc # "connect")

\* connect_to_mysql gave up after using all its attempts
C16_Witness ==
    /\ entry = "connect_to_mysql"
    /\ pc = "done"
    /\ attempts >= 1
    /\ Count("connect") = attempts
    /\ result = "None"

\* the run has got as far as the credential lookup of connect_to_mysql
ReachedLookup ==
    /\ entry = "lambda_handler"
    /\ \/ pc \in {"connect_to_mysql", "connect", "check_cnx", "insert_data",
                  "execute", "cursor_close", "cnx_close"}
       \/ pc = "done" /\ exc \notin {"provider", "KeyError BUCKET_DEST",
                                      "ClientError put_object"}
\* the object this run archived is in the bucket, with the run's records
ArchiveInBucket ==
    /\ \E n \in Ops("put_object") : log[n].out = "ok"
    /\ [key |-> clock - KeyDaysBack, body |-> ToCsv(data)] \in bucket

\* C17: a run that reaches the credential lookup or a later step has written
\* its archive object, and the object stays in the bucket as written through
\* every later step, also when the run fails in the lookup, the connection
\* or the insert; no step other than save_in_bucket changes the bucket.
C17_ArchiveKept ==
    /\ [](ReachedLookup => ArchiveInBucket)
    /\ [][pc # "save_in_bucket" => bucket' = bucket]_vars

\* a run that failed in its second insert: the archive is in the bucket and
\* no row is committed
C17_Witness ==
    /\ ReachedLookup
    /\ pc = "done" /\ result = "raised"
    /\ \E n \in Ops("execute") : log[n].out = "dberr" /\ log[n].arg = 2
    /\ ArchiveInBucket
    /\ committed = <<>>

\* C18: a connect call that raises something other than a database or I/O
\* error is the last call made: no further attempt, no sleep, no insert;
\* that exception leaves connect_to_mysql and the run ends raised.
C18_OtherErrorsNotRetried ==
    \A n \in Ops("connect") :
        log[n].out = "other" =>
            /\ n = Len(log)
            /\ Count("connect") = log[n].arg
            /\ pc = "done" /\ result = "raised" /\ exc = "other"
            /\ cnx = "unset"
            /\ response = NoResponse
            /\ NoCall({"cursor", "execute", "commit"})
            /\ inserted = <<>>

\* a run of lambda_handler whose first connect call raised such an error
C18_Witness ==
    /\ entry = "lambda_handler"
    /\ \E n \in Ops("connect") : log[n].out = "other" /\ log[n].arg = 1
    /\ bucket # {}
    /\ pc = "done"

====
